---- MODULE Spec2Model ----
(***************************************************************************)
(* ExtractTransformLoad (src/etl_script.py): three ingestors read_csv,     *)
(* read_json and read_xml fill rows / columns / common_columns; the two    *)
(* properties d_m_sorted_columns and d_m_sorted_common_columns resolve the *)
(* reported columns; write_tsv_basic, get_data_advanced and                *)
(* write_tsv_advanced produce the reports.                                 *)
(*                                                                         *)
(* Python strings are TLA+ strings; every operation that looks inside a    *)
(* string (key[0], y[1:], int(val), <) works on its characters, Chars(s).  *)
(* A Python value is a record [t, s, k, n]: t is its type, s the text of a *)
(* str, and k * 2^53 + n the magnitude of an int or a float.               *)
(***************************************************************************)
EXTENDS Integers, Sequences, FiniteSets, TLC

VARIABLES rows, columns, common_columns, calls, lastCall

vars == <<rows, columns, common_columns, calls, lastCall>>

\* Number of ingestion calls of one run.
MaxCalls == 2

-----------------------------------------------------------------------------
(* Strings *)

Text == {"D1", "D2", "M1", "M2", "X1", "a", "2", "12", "-", "MS1", "MS2"}

\* The characters of each string literal used in the model.
Chars(s) ==
    CASE s = "D1"  -> <<"D", "1">>
      [] s = "D2"  -> <<"D", "2">>
      [] s = "M1"  -> <<"M", "1">>
      [] s = "M2"  -> <<"M", "2">>
      [] s = "X1"  -> <<"X", "1">>
      [] s = "a"   -> <<"a">>
      [] s = "2"   -> <<"2">>
      [] s = "12"  -> <<"1", "2">>
      [] s = "-"   -> <<"-">>
      [] s = "MS1" -> <<"M", "S", "1">>
      [] s = "MS2" -> <<"M", "S", "2">>

\* The string with the given characters.
FromChars(cs) == CHOOSE s \in Text : Chars(s) = cs

Digits == {"0", "1", "2", "3", "4", "5", "6", "7", "8", "9"}

\* Code point of a character.
Ord(c) ==
    CASE c = "+" -> 43
      [] c = "-" -> 45
      [] c \in Digits -> 48 + (CHOOSE d \in 0..9 :
                                 <<"0", "1", "2", "3", "4", "5", "6", "7", "8", "9">>[d + 1] = c)
      [] c = "D" -> 68
      [] c = "M" -> 77
      [] c = "S" -> 83
      [] c = "X" -> 88
      [] c = "a" -> 97

\* key[0]
FirstChar(s) == Chars(s)[1]

RECURSIVE CharsLess(_, _)
\* a < b on strings: lexicographic by code point, a proper prefix first.
CharsLess(a, b) ==
    IF b = <<>> THEN FALSE
    ELSE IF a = <<>> THEN TRUE
    ELSE IF Head(a) # Head(b) THEN Ord(Head(a)) < Ord(Head(b))
    ELSE CharsLess(Tail(a), Tail(b))

StrLess(s, t) == CharsLess(Chars(s), Chars(t))

-----------------------------------------------------------------------------
(* Values *)

StrV(s) == [t |-> "str", s |-> s, k |-> 0, n |-> 0]
IntV(n) == [t |-> "int", s |-> "", k |-> 0, n |-> n]
FloatV(k, n) == [t |-> "float", s |-> "", k |-> k, n |-> n]
NoneV == [t |-> "NoneType", s |-> "", k |-> 0, n |-> 0]

RECURSIVE DigitsValue(_, _)
\* The decimal number written by a sequence of digits, after acc.
DigitsValue(cs, acc) ==
    IF cs = <<>> THEN acc
    ELSE DigitsValue(Tail(cs), 10 * acc + (Ord(Head(cs)) - Ord("0")))

\* int(s) of a str: an optional sign and at least one digit, else ValueError.
IntOfChars(cs) ==
    LET signed == cs # <<>> /\ Head(cs) \in {"+", "-"}
        body == IF signed THEN Tail(cs) ELSE cs
    IN  IF body # <<>> /\ \A i \in 1..Len(body) : body[i] \in Digits
        THEN [exc |-> "", val |-> IntV(IF signed /\ Head(cs) = "-"
                                        THEN 0 - DigitsValue(body, 0)
                                        ELSE DigitsValue(body, 0))]
        ELSE [exc |-> "ValueError", val |-> NoneV]

\* int(val): a str is parsed, a number is truncated to an int, None raises
\* TypeError.
int(v) ==
    CASE v.t = "str" -> IntOfChars(Chars(v.s))
      [] v.t = "int" -> [exc |-> "", val |-> v]
      [] v.t = "float" -> [exc |-> "", val |-> [v EXCEPT !.t = "int"]]
      [] v.t = "NoneType" -> [exc |-> "TypeError", val |-> NoneV]

\* d[k] = v on a dict.
DictSet(d, k, v) == [x \in (DOMAIN d) \cup {k} |-> IF x = k THEN v ELSE d[x]]

EmptyDict == [x \in {} |-> NoneV]

Range(f) == {f[i] : i \in DOMAIN f}

Min(a, b) == IF a < b THEN a ELSE b

-----------------------------------------------------------------------------
(* read_csv *)

RECURSIVE csv_fields(_, _, _, _)
\* for key, val in zip(columns, row): ...   (lines 53-66)
csv_fields(cols, row, i, new_row) ==
    IF i > Min(Len(cols), Len(row)) THEN new_row
    ELSE LET key == cols[i]
             val == StrV(row[i])
         IN  IF FirstChar(key) = "D"
             THEN csv_fields(cols, row, i + 1, DictSet(new_row, key, val))
             ELSE IF FirstChar(key) = "M"
             THEN IF int(val).exc = "ValueError"
                  THEN csv_fields(cols, row, i + 1, new_row)
                  ELSE csv_fields(cols, row, i + 1, DictSet(new_row, key, int(val).val))
             ELSE csv_fields(cols, row, i + 1, new_row)

RECURSIVE csv_lines_without_columns_update(_, _, _)
\* csv_lines with line 49, self.columns.update(row), left out.
csv_lines_without_columns_update(self, cols, lines) ==
    IF lines = <<>> THEN self
    ELSE LET row == Head(lines) IN
         IF cols = <<>>
         THEN csv_lines_without_columns_update(
                  [self EXCEPT !.common_columns = Append(@, Range(row))], row, Tail(lines))
         ELSE csv_lines_without_columns_update(
                  [self EXCEPT !.rows = Append(@, csv_fields(cols, row, 1, EmptyDict))],
                  cols, Tail(lines))

RECURSIVE csv_lines(_, _, _)
\* for row in reader: ...   (lines 46-68); cols is the local `columns`, with
\* <<>> for both None and [], which `not columns` does not tell apart.
csv_lines(self, cols, lines) ==
    IF lines = <<>> THEN self
    ELSE LET row == Head(lines) IN
         IF cols = <<>>
         THEN csv_lines([self EXCEPT !.columns = @ \cup Range(row),
                                     !.common_columns = Append(@, Range(row))],
                        row, Tail(lines))
         ELSE csv_lines([self EXCEPT !.rows = Append(@, csv_fields(cols, row, 1, EmptyDict))],
                        cols, Tail(lines))

\* read_csv(path): the file is the sequence of rows csv.reader yields.
read_csv(self, file) == csv_lines([self EXCEPT !.exc = ""], <<>>, file)

-----------------------------------------------------------------------------
(* read_json *)

RECURSIVE json_items(_, _, _)
\* for key, val in field.items(): ...   (lines 87-100); field is the sequence
\* of the object's (key, value) pairs, acc the local new_row, common_columns
\* and the exception raised, if any.
json_items(field, i, acc) ==
    IF i > Len(field) \/ acc.exc # "" THEN acc
    ELSE LET key == field[i].key
             val == field[i].val
             added == [acc EXCEPT !.common = @ \cup {key}]
         IN  IF FirstChar(key) = "M"
             THEN CASE int(val).exc = "ValueError" -> json_items(field, i + 1, added)
                    [] int(val).exc = "TypeError" -> [added EXCEPT !.exc = "TypeError"]
                    [] int(val).exc = "" ->
                         \* line 99 stores value, line 100 then stores val
                         json_items(field, i + 1,
                             [added EXCEPT !.new_row =
                                 DictSet(DictSet(@, key, int(val).val), key, val)])
             ELSE json_items(field, i + 1,
                             [added EXCEPT !.new_row = DictSet(@, key, val)])

RECURSIVE json_fields(_, _, _)
\* for field in data['fields']: ...   (lines 84-102), then line 103
json_fields(self, fields, common) ==
    IF fields = <<>>
    THEN [self EXCEPT !.common_columns = Append(@, common)]
    ELSE LET field == Head(fields)
             upd == [self EXCEPT !.columns = @ \cup {field[i].key : i \in DOMAIN field}]
             done == json_items(field, 1, [new_row |-> EmptyDict, common |-> common, exc |-> ""])
         IN  IF done.exc # "" THEN [upd EXCEPT !.exc = done.exc]
             ELSE json_fields([upd EXCEPT !.rows = Append(@, done.new_row)],
                              Tail(fields), done.common)

\* read_json(path): the file is data['fields'], a sequence of objects.
read_json(self, file) == json_fields([self EXCEPT !.exc = ""], file, {})

-----------------------------------------------------------------------------
(* read_xml *)

RECURSIVE xml_values(_, _, _, _)
\* for val in obj: ...   (lines 123-136); acc is new_row and the exception.
xml_values(column, vals, i, acc) ==
    IF i > Len(vals) \/ acc.exc # "" THEN acc
    ELSE LET val == vals[i] IN
         IF FirstChar(column) = "D"
         THEN xml_values(column, vals, i + 1, [acc EXCEPT !.new_row = DictSet(@, column, val)])
         ELSE IF FirstChar(column) = "M"
         THEN CASE int(val).exc = "ValueError" -> xml_values(column, vals, i + 1, acc)
                [] int(val).exc = "TypeError" -> [acc EXCEPT !.exc = "TypeError"]
                [] int(val).exc = "" ->
                     xml_values(column, vals, i + 1,
                                [acc EXCEPT !.new_row = DictSet(@, column, int(val).val)])
         ELSE xml_values(column, vals, i + 1, acc)

RECURSIVE xml_objects(_, _, _, _)
\* for obj in tree.findall('objects/object'): ...   (lines 119-136), then
\* lines 138-139
xml_objects(self, objs, new_row, common) ==
    IF objs = <<>>
    THEN [self EXCEPT !.rows = Append(@, new_row),
                      !.common_columns = Append(@, common)]
    ELSE LET column == Head(objs).name
             upd == [self EXCEPT !.columns = @ \cup {column}]
             done == xml_values(column, Head(objs).vals, 1, [new_row |-> new_row, exc |-> ""])
         IN  IF done.exc # "" THEN [upd EXCEPT !.exc = done.exc]
             ELSE xml_objects(upd, Tail(objs), done.new_row, common \cup {column})

\* read_xml(path): the file is the sequence of <object name=...> elements, each
\* with the texts of its child nodes (None for an empty node).
read_xml(self, file) == xml_objects([self EXCEPT !.exc = ""], file, EmptyDict, {})

-----------------------------------------------------------------------------
(* Schema reconciliation *)

\* int(y[1:]), the sort key of a column name.
SuffixKey(y) == IntOfChars(Tail(Chars(y))).val.n

RECURSIVE SortedColumns(_)
\* tuple(sorted(cols, key=lambda y: int(y[1:]))) of a set of names with
\* distinct keys.
SortedColumns(S) ==
    IF S = {} THEN <<>>
    ELSE LET least == CHOOSE x \in S : \A y \in S : SuffixKey(x) <= SuffixKey(y)
         IN  <<least>> \o SortedColumns(S \ {least})

\* The D-/M-split and sort shared by both properties (lines 149-160, 174-187).
SplitAndSort(S) ==
    [d |-> SortedColumns({c \in S : FirstChar(c) = "D"}),
     m |-> SortedColumns({c \in S : FirstChar(c) = "M"})]

d_m_sorted_columns(self) == SplitAndSort(self.columns)

RECURSIVE Intersection(_)
\* common_columns[0].intersection(*common_columns[1:])
Intersection(sets) ==
    IF Len(sets) = 1 THEN sets[1]
    ELSE sets[1] \cap Intersection(Tail(sets))

d_m_sorted_common_columns(self) ==
    IF self.common_columns = <<>> THEN [d |-> <<>>, m |-> <<>>]
    ELSE SplitAndSort(Intersection(self.common_columns))

\* if common_columns: ... else: ...   (lines 209-212, 275-278)
Resolve(self, common) ==
    IF common THEN d_m_sorted_common_columns(self) ELSE d_m_sorted_columns(self)

-----------------------------------------------------------------------------
(* Ordering of values *)

IsNumber(v) == v.t \in {"int", "float"}

\* Whether v < w is defined: two strs or two numbers; anything else raises
\* TypeError.
Comparable(v, w) == (v.t = "str" /\ w.t = "str") \/ (IsNumber(v) /\ IsNumber(w))

\* v < w
ValLess(v, w) ==
    IF v.t = "str" THEN StrLess(v.s, w.s)
    ELSE v.k < w.k \/ (v.k = w.k /\ v.n < w.n)

\* row.get(col, default)
Get(row, col, default) == IF col \in DOMAIN row THEN row[col] ELSE default

RECURSIVE InsertByD1(_, _)
\* Insert row x into a list sorted by x['D1'], after the rows not greater.
InsertByD1(sorted, x) ==
    IF sorted = <<>> THEN <<x>>
    ELSE IF ValLess(x["D1"], Head(sorted)["D1"]) THEN <<x>> \o sorted
    ELSE <<Head(sorted)>> \o InsertByD1(Tail(sorted), x)

\* SortedByD1 with the sort left out: the rows in the order they were stored.
SortedByD1_unsorted(rs, acc) == rs

RECURSIVE SortedByD1(_, _)
\* sorted(self.rows, key=lambda x: x['D1']): a stable sort.
SortedByD1(rs, acc) ==
    IF rs = <<>> THEN acc
    ELSE SortedByD1(Tail(rs), InsertByD1(acc, Head(rs)))

RECURSIVE TupleLess(_, _)
\* a < b on tuples of values
TupleLess(a, b) ==
    IF b = <<>> THEN FALSE
    ELSE IF a = <<>> THEN TRUE
    ELSE IF Head(a) # Head(b) THEN ValLess(Head(a), Head(b))
    ELSE TupleLess(Tail(a), Tail(b))

RECURSIVE SortedKeys(_)
\* sorted(data.keys()) of distinct tuples of strs
SortedKeys(S) ==
    IF S = {} THEN <<>>
    ELSE LET least == CHOOSE x \in S : \A y \in S \ {x} : TupleLess(x, y)
         IN  <<least>> \o SortedKeys(S \ {least})

-----------------------------------------------------------------------------
(* Reports *)

Cells(names) == [i \in DOMAIN names |-> StrV(names[i])]

\* write_tsv_basic(path, common_columns): out is the sequence of rows handed
\* to tsv_writer.writerow, exc the exception that ended the call, if any.
write_tsv_basic(self, common) ==
    LET cols == Resolve(self, common).d \o Resolve(self, common).m
        header == <<Cells(cols)>>
        rs == self.rows
        out_row(row) == [i \in DOMAIN cols |-> Get(row, cols[i], StrV("-"))]
    IN  IF \E i \in DOMAIN rs : "D1" \notin DOMAIN rs[i]
        THEN [exc |-> "KeyError", out |-> header]
        ELSE IF \E i, j \in DOMAIN rs : i # j /\ ~Comparable(rs[i]["D1"], rs[j]["D1"])
        THEN [exc |-> "TypeError", out |-> header]
        ELSE LET sorted_rows == SortedByD1(rs, <<>>)
             IN  [exc |-> "",
                  out |-> header \o [i \in DOMAIN sorted_rows |-> out_row(sorted_rows[i])]]

RECURSIVE Ulp(_)
\* Spacing of the doubles in [k * 2^53, (k + 1) * 2^53), k >= 1.
Ulp(k) == IF k <= 1 THEN 2 ELSE 2 * Ulp(k \div 2)

\* The double nearest to k * 2^53 + n (0 <= n < 2^53), ties to the even
\* mantissa.
RoundDouble(k, n) ==
    IF k = 0 THEN FloatV(0, n)
    ELSE LET ulp == Ulp(k)
             q == n \div ulp
             r == n % ulp
             up == 2 * r > ulp \/ (2 * r = ulp /\ q % 2 = 1)
         IN  FloatV(k, (IF up THEN q + 1 ELSE q) * ulp)

\* x[0] + x[1]   (line 248)
Add(v, w) ==
    IF ~(IsNumber(v) /\ IsNumber(w)) THEN [exc |-> "TypeError", val |-> NoneV]
    ELSE IF v.t = "int" /\ w.t = "int"
    THEN [exc |-> "", val |-> [v EXCEPT !.k = @ + w.k, !.n = @ + w.n]]
    ELSE [exc |-> "", val |-> RoundDouble(v.k + w.k, v.n + w.n)]

EmptyData == [x \in {} |-> <<>>]

RECURSIVE advanced_rows(_, _, _, _)
\* for row in self.rows: ...   (lines 244-249)
advanced_rows(rs, d_columns, m_columns, data) ==
    IF rs = <<>> THEN [exc |-> "", data |-> data]
    ELSE LET row == Head(rs)
             key == [i \in DOMAIN d_columns |-> Get(row, d_columns[i], StrV("-"))]
             val == [i \in DOMAIN m_columns |-> Get(row, m_columns[i], IntV(0))]
             default_val == [i \in DOMAIN m_columns |-> IntV(0)]
             val_dict == IF key \in DOMAIN data THEN data[key] ELSE default_val
             sums == [i \in DOMAIN m_columns |-> Add(val_dict[i], val[i])]
         IN  IF \E i \in DOMAIN sums : sums[i].exc # ""
             THEN [exc |-> "TypeError", data |-> EmptyData]
             ELSE advanced_rows(Tail(rs), d_columns, m_columns,
                                DictSet(data, key, [i \in DOMAIN sums |-> sums[i].val]))

get_data_advanced(self, d_columns, m_columns) ==
    advanced_rows(self.rows, d_columns, m_columns, EmptyData)

\* f'{v[0]}S{v[1:]}'
Renamed(v) == FromChars(<<Chars(v)[1], "S">> \o Tail(Chars(v)))

write_tsv_advanced(self, common) ==
    LET d_columns == Resolve(self, common).d
        m_columns == Resolve(self, common).m
        header == <<Cells(d_columns \o [i \in DOMAIN m_columns |-> Renamed(m_columns[i])])>>
        got == get_data_advanced(self, d_columns, m_columns)
        keys == SortedKeys(DOMAIN got.data)
    IN  IF got.exc # "" THEN [exc |-> got.exc, out |-> header]
        ELSE [exc |-> "",
              out |-> header \o [i \in DOMAIN keys |-> keys[i] \o got.data[keys[i]]]]

-----------------------------------------------------------------------------
(* Sources *)

\* .csv files, each the sequence of rows csv.reader yields (a blank line is
\* the empty row).
CsvFiles ==
    { <<>>,
      << <<>>, <<"D1", "M1">>, <<"a", "12">> >>,
      << <<"D2">> >>,
      << <<"D1", "D2">>, <<"a", "12">>, <<"2", "a">> >>,
      << <<"D1", "M1">>, <<"a", "12">>, <<"2", "a">> >>,
      << <<"D1", "M1">>, <<"a", "2">>, <<"a", "12">> >>,
      << <<"D1", "M1", "X1">>, <<"12", "2", "a">>, <<>>, <<"a">> >>,
      << <<"M1">>, <<"a">> >> }

Item(key, val) == [key |-> key, val |-> val]

\* .json files, each the sequence data['fields'] of objects; TwoTo53 is the
\* JSON number 9007199254740992.0.
TwoTo53 == FloatV(1, 0)

JsonFiles ==
    { <<>>,
      << <<Item("D1", StrV("a")), Item("M1", StrV("12")), Item("X1", StrV("a"))>>,
         <<Item("D1", StrV("2")), Item("M1", StrV("a"))>> >>,
      << <<Item("D1", StrV("a")), Item("M1", IntV(1))>>,
         <<Item("D1", StrV("a")), Item("M1", IntV(1))>> >>,
      << <<Item("D1", StrV("a")), Item("M1", TwoTo53)>> >>,
      << <<Item("D1", StrV("a")), Item("M1", NoneV)>> >> }

Object(name, vals) == [name |-> name, vals |-> vals]

\* .xml files, each the sequence of objects/object elements with the texts
\* of their child nodes.
XmlFiles ==
    { <<>>,
      <<Object("D1", <<StrV("a")>>), Object("M1", <<StrV("12")>>), Object("X1", <<StrV("a")>>)>>,
      <<Object("D1", <<StrV("a"), StrV("2")>>), Object("M1", <<StrV("2"), StrV("a")>>)>>,
      <<Object("D1", <<StrV("a")>>), Object("M1", <<NoneV>>)>>,
      <<Object("D1", <<StrV("12")>>), Object("D2", <<StrV("a")>>), Object("M2", <<StrV("2")>>)>> }

-----------------------------------------------------------------------------
(* The program *)

Self == [rows |-> rows, columns |-> columns, common_columns |-> common_columns,
         exc |-> ""]

\* __init__   (lines 28-30)
Init ==
    /\ rows = <<>>
    /\ columns = {}
    /\ common_columns = <<>>
    /\ calls = <<>>
    /\ lastCall = [op |-> "__init__", exc |-> "", common |-> FALSE,
                   out |-> <<>>, data |-> EmptyData]

\* An uncaught exception ends the process (lines 287-299 catch nothing).
Running == lastCall.exc = ""

Ingested(op, fmt, file, result) ==
    /\ rows' = result.rows
    /\ columns' = result.columns
    /\ common_columns' = result.common_columns
    /\ calls' = Append(calls, [fmt |-> fmt, file |-> file])
    /\ lastCall' = [op |-> op, exc |-> result.exc, common |-> FALSE,
                    out |-> <<>>, data |-> EmptyData]

CallReadCsv ==
    /\ Running /\ Len(calls) < MaxCalls
    /\ \E file \in CsvFiles : Ingested("read_csv", "csv", file, read_csv(Self, file))

CallReadJson ==
    /\ Running /\ Len(calls) < MaxCalls
    /\ \E file \in JsonFiles : Ingested("read_json", "json", file, read_json(Self, file))

CallReadXml ==
    /\ Running /\ Len(calls) < MaxCalls
    /\ \E file \in XmlFiles : Ingested("read_xml", "xml", file, read_xml(Self, file))

CallWriteTsvBasic ==
    /\ Running
    /\ \E common \in BOOLEAN :
         LET r == write_tsv_basic(Self, common)
         IN  lastCall' = [op |-> "write_tsv_basic", exc |-> r.exc, common |-> common,
                          out |-> r.out, data |-> EmptyData]
    /\ UNCHANGED <<rows, columns, common_columns, calls>>

CallGetDataAdvanced ==
    /\ Running
    /\ \E common \in BOOLEAN :
         LET r == get_data_advanced(Self, Resolve(Self, common).d, Resolve(Self, common).m)
         IN  lastCall' = [op |-> "get_data_advanced", exc |-> r.exc, common |-> common,
                          out |-> <<>>, data |-> r.data]
    /\ UNCHANGED <<rows, columns, common_columns, calls>>

CallWriteTsvAdvanced ==
    /\ Running
    /\ \E common \in BOOLEAN :
         LET r == write_tsv_advanced(Self, common)
         IN  lastCall' = [op |-> "write_tsv_advanced", exc |-> r.exc, common |-> common,
                          out |-> r.out, data |-> EmptyData]
    /\ UNCHANGED <<rows, columns, common_columns, calls>>

Next ==
    \/ CallReadCsv
    \/ CallReadJson
    \/ CallReadXml
    \/ CallWriteTsvBasic
    \/ CallGetDataAdvanced
    \/ CallWriteTsvAdvanced

Spec == Init /\ [][Next]_vars

-----------------------------------------------------------------------------
(* Properties *)

Reads == {"read_csv", "read_json", "read_xml"}

\* The line write_tsv_basic renders for a row under the given columns.
Rendered(row, cols) == [i \in DOMAIN cols |-> IF cols[i] \in DOMAIN row THEN row[cols[i]] ELSE StrV("-")]

\* The Group Key of a row under the given dimension columns.
GroupKey(row, d) == [i \in DOMAIN d |-> IF d[i] \in DOMAIN row THEN row[d[i]] ELSE StrV("-")]

RECURSIVE IntegerSum(_, _, _)
\* The sum over the rows with Group Key `key` of their integer in measure
\* column m, a missing measure counting 0.
IntegerSum(rs, key, dm) ==
    IF rs = <<>> THEN 0
    ELSE (IF GroupKey(Head(rs), dm.d) = key /\ dm.m \in DOMAIN Head(rs)
          THEN int(Head(rs)[dm.m]).val.n ELSE 0)
         + IntegerSum(Tail(rs), key, dm)

\* C1: every value stored in a row under a measure column (name starting
\* with 'M') is an integer, whichever ingestor stored it.
C1_MeasureValuesAreIntegers ==
    \A i \in DOMAIN rows : \A c \in DOMAIN rows[i] :
        FirstChar(c) = "M" => rows[i][c].t = "int"

\* C2: no stored row has a column whose name starts with a character other
\* than 'D' or 'M'.
C2_NoIgnoredColumnStored ==
    \A i \in DOMAIN rows : \A c \in DOMAIN rows[i] : FirstChar(c) \in {"D", "M"}

\* C3: an ingestion call never ends in an exception over a measure field
\* whose raw value is not a valid integer (no other field of the modelled
\* sources can raise).
C3_InvalidMeasureNeverAborts ==
    lastCall.op \in Reads => lastCall.exc = ""

\* C4: write_tsv_basic completes under either policy and emits the header
\* and exactly one body line per stored row, each the row's values under the
\* resolved columns with '-' for the columns it lacks.
C4_BasicNeverAborts ==
    lastCall.op = "write_tsv_basic" =>
        LET cols == Resolve(Self, lastCall.common).d \o Resolve(Self, lastCall.common).m
            body == Tail(lastCall.out)
        IN  /\ lastCall.exc = ""
            /\ Len(lastCall.out) = 1 + Len(rows)
            /\ \A i \in DOMAIN rows : \E j \in DOMAIN body : body[j] = Rendered(rows[i], cols)
            /\ \A j \in DOMAIN body : \E i \in DOMAIN rows : body[j] = Rendered(rows[i], cols)

\* C5 as claimed: the body lines of a completed write_tsv_basic are in
\* ascending lexicographic order of the value in the first resolved
\* dimension column, which is the first cell of each line.
C5_SortedByFirstResolvedDimension ==
    (/\ lastCall.op = "write_tsv_basic"
     /\ lastCall.exc = ""
     /\ Resolve(Self, lastCall.common).d # <<>>) =>
        LET body == Tail(lastCall.out)
        IN  \A i, j \in DOMAIN body : i < j => ~ValLess(body[j][1], body[i][1])

\* Position in the body of row i when the rows are ordered by their D1
\* value, rows of equal D1 in the order they were ingested.
RankByD1(i) ==
    1 + Cardinality({l \in DOMAIN rows : ValLess(rows[l]["D1"], rows[i]["D1"])})
      + Cardinality({l \in 1..(i - 1) : rows[l]["D1"] = rows[i]["D1"]})

\* C5 as amended: the body lines of a completed write_tsv_basic are the rows
\* in ascending lexicographic order of their value under the literal key
\* 'D1', whichever policy is selected and whatever the first resolved
\* dimension column is.
C5_SortedByD1 ==
    (lastCall.op = "write_tsv_basic" /\ lastCall.exc = "") =>
        LET cols == Resolve(Self, lastCall.common).d \o Resolve(Self, lastCall.common).m
            body == Tail(lastCall.out)
        IN  /\ Len(body) = Len(rows)
            /\ \A i \in DOMAIN rows : body[RankByD1(i)] = Rendered(rows[i], cols)
            /\ \A i, j \in DOMAIN rows :
                 RankByD1(i) < RankByD1(j) => ~ValLess(rows[j]["D1"], rows[i]["D1"])

\* A completed Intersection-policy report whose first resolved dimension is
\* not D1 and whose rows the sort had to reorder.
C5_Witness ==
    /\ lastCall.op = "write_tsv_basic"
    /\ lastCall.exc = ""
    /\ lastCall.common
    /\ Resolve(Self, TRUE).d # <<>>
    /\ Resolve(Self, TRUE).d[1] # "D1"
    /\ \E i, j \in DOMAIN rows : i < j /\ ValLess(rows[j]["D1"], rows[i]["D1"])

\* C6: in every state the dimension and measure lists resolved under the
\* Intersection policy are subsets of those resolved under the Union policy.
C6_IntersectionWithinUnion ==
    /\ Range(d_m_sorted_common_columns(Self).d) \subseteq Range(d_m_sorted_columns(Self).d)
    /\ Range(d_m_sorted_common_columns(Self).m) \subseteq Range(d_m_sorted_columns(Self).m)

\* Several sources ingested, a non-empty Intersection dimension list that is
\* strictly smaller than the Union one, and likewise for the measures' union.
C6_Witness ==
    /\ Len(common_columns) >= 2
    /\ d_m_sorted_common_columns(Self).d # <<>>
    /\ Range(d_m_sorted_common_columns(Self).d) # Range(d_m_sorted_columns(Self).d)
    /\ Range(d_m_sorted_common_columns(Self).m) # Range(d_m_sorted_columns(Self).m)

Ingest(self, call) ==
    CASE call.fmt = "csv" -> read_csv(self, call.file)
      [] call.fmt = "json" -> read_json(self, call.file)
      [] call.fmt = "xml" -> read_xml(self, call.file)

RECURSIVE Replay(_, _, _)
\* The store after the calls cs[p[1]], cs[p[2]], ... on a new object.
Replay(cs, p, i) ==
    IF i = 0 THEN [rows |-> <<>>, columns |-> {}, common_columns |-> <<>>, exc |-> ""]
    ELSE Ingest(Replay(cs, p, i - 1), cs[p[i]])

Advanced(self, common) ==
    get_data_advanced(self, Resolve(self, common).d, Resolve(self, common).m)

\* C7: the ingestion calls made so far, executed in any other order, yield
\* the same result of get_data_advanced under either policy.
C7_OrderOfCallsIrrelevant ==
    lastCall.exc = "" =>
        \A p \in Permutations(DOMAIN calls) : \A common \in BOOLEAN :
            Advanced(Replay(calls, p, Len(calls)), common) = Advanced(Self, common)

\* C8: write_tsv_advanced emits the header of the resolved dimension columns
\* and the measure columns renamed M<n> -> MS<n>, then one line per distinct
\* Group Key, in strictly ascending order of the key, each the key followed
\* by the group's integer sums.
C8_AdvancedReport ==
    lastCall.op = "write_tsv_advanced" =>
        LET dm == Resolve(Self, lastCall.common)
            keys == {GroupKey(rows[i], dm.d) : i \in DOMAIN rows}
            body == Tail(lastCall.out)
        IN  /\ lastCall.out # <<>>
            /\ Head(lastCall.out) =
                 Cells(dm.d \o [i \in DOMAIN dm.m |-> FromChars(<<"M", "S">> \o Tail(Chars(dm.m[i])))])
            /\ Len(body) = Cardinality(keys)
            /\ \A j \in DOMAIN body :
                 /\ SubSeq(body[j], 1, Len(dm.d)) \in keys
                 /\ \A i \in DOMAIN dm.m :
                      body[j][Len(dm.d) + i] =
                          IntV(IntegerSum(rows, SubSeq(body[j], 1, Len(dm.d)),
                                          [d |-> dm.d, m |-> dm.m[i]]))
            /\ \A i, j \in DOMAIN body :
                 i < j => TupleLess(SubSeq(body[i], 1, Len(dm.d)), SubSeq(body[j], 1, Len(dm.d)))

RECURSIVE ColumnTotal(_, _)
\* The total of measure column m over all rows.
ColumnTotal(rs, m) ==
    IF rs = <<>> THEN 0
    ELSE (IF m \in DOMAIN Head(rs) THEN int(Head(rs)[m]).val.n ELSE 0)
         + ColumnTotal(Tail(rs), m)

RECURSIVE GroupTotal(_, _, _)
\* The total of position i of the group values over the given keys.
GroupTotal(data, keys, i) ==
    IF keys = {} THEN 0
    ELSE LET key == CHOOSE x \in keys : TRUE
         IN  data[key][i].n + GroupTotal(data, keys \ {key}, i)

\* C9: get_data_advanced returns a mapping whose keys are exactly the
\* distinct Group Keys of the rows and whose value at each key is, position
\* by position, the integer sum of that measure over the rows of the key;
\* each measure's total over the groups is its total over the rows.
C9_GroupSums ==
    lastCall.op = "get_data_advanced" =>
        LET dm == Resolve(Self, lastCall.common)
            data == lastCall.data
        IN  /\ lastCall.exc = ""
            /\ DOMAIN data = {GroupKey(rows[i], dm.d) : i \in DOMAIN rows}
            /\ \A key \in DOMAIN data : \A i \in DOMAIN dm.m :
                 data[key][i] = IntV(IntegerSum(rows, key, [d |-> dm.d, m |-> dm.m[i]]))
            /\ \A i \in DOMAIN dm.m :
                 GroupTotal(data, DOMAIN data, i) = ColumnTotal(rows, dm.m[i])

\* C10: every completed ingestion call has recorded exactly one Source
\* Column Set, so common_columns holds as many sets as calls were made.
C10_OneColumnSetPerCall ==
    lastCall.exc = "" => Len(common_columns) = Len(calls)

====
